---- MODULE Spec2Model ----
(***************************************************************************)
(* Model of scrape.py: the two pagination drivers (request_all_tunes and   *)
(* request_all_tunes_by_code), the page requesters, the record formatter,  *)
(* the transcription fetcher and the emptiness filter, together with the   *)
(* remote catalog and the local file system they act on.                   *)
(*                                                                         *)
(* Text is modelled as a sequence of words.  "No Score" is the two-word    *)
(* text <<"No","Score">>, the placeholder line is <<"REPLACE","LINE">>,    *)
(* and Python's substring test `needle in hay` is Contains(needle, hay).   *)
(***************************************************************************)
EXTENDS Integers, Sequences, FiniteSets, TLC

VARIABLES
    driver,       \* which entry point runs: "by_code" or "global"
    site,         \* the remote catalog the run talks to (fixed for a behaviour)
    pc,           \* position of the process
    codeIdx,      \* 1-based position of the itertools.product iterator
    page,         \* the loop variable `page`
    all_tunes,    \* the accumulator `all_tunes`
    tunes_dict,   \* values of the result mapping of the page being formatted
    entries,      \* list under construction by the list comprehension
    files,        \* the file system: file name -> text of the file
    run,          \* history: number of the current process run
    nreq,         \* history: HTTP requests issued by the current process
    sawNon200,    \* history: some response of this run had a status other than 200
    asked,        \* history: page requests issued for the current code/run
    got,          \* history: raw pages returned for the current code/run
    requested,    \* history: code positions a request was issued for in this run
    startFiles,   \* history: the file system when this run started
    flushed,      \* history: last completed page flush of this run
    interrupted,  \* history: codes whose processing stopped after their file existed
    abc_in,       \* input of the emptiness filter (filter specification only)
    verdict       \* result of the emptiness filter (filter specification only)

progVars == <<driver, site, pc, codeIdx, page, all_tunes, tunes_dict, entries, files>>
histVars == <<run, nreq, sawNon200, asked, got, requested, startFiles, flushed, interrupted>>
filterVars == <<abc_in, verdict>>
vars == <<progVars, histVars, filterVars>>

---------------------------------------------------------------------------
(* Bounds of the model *)

\* The by-code run is followed over the first MaxCodes theme codes.
MaxCodes == 3
\* The global driver is followed over its first MaxGlobalPages pages.
MaxGlobalPages == 3
\* Number of process runs (first run plus restarts) that are followed.
MaxRuns == 2
\* Longest text given to the emptiness filter in FilterSpec.
MaxLen == 3

---------------------------------------------------------------------------
(* Program constants *)

HTTP_OK == 200
tunes_per_page == 10
PAGES_PER_CODE == 10
DIGIT_START == 1
DIGIT_STOP == 8
REPEAT == 4

NO_SCORE == <<"No", "Score">>
PLACEHOLDER == <<"REPLACE", "LINE">>
GLOBAL_FILE == [name |-> "tunes.json", arg |-> <<>>]
TUNE_FILE_FORMAT(code) == [name |-> "tunes-{}.json", arg |-> code]

---------------------------------------------------------------------------
(* Pure helpers *)

Min(a, b) == IF a < b THEN a ELSE b

RECURSIVE Pow(_, _)
Pow(b, e) == IF e = 0 THEN 1 ELSE b * Pow(b, e - 1)

\* Python's `needle in hay` on text.
Contains(needle, hay) ==
    \E i \in 0..(Len(hay) - Len(needle)) :
        SubSeq(hay, i + 1, i + Len(needle)) = needle

\* unidecode: transliterate every non-ASCII letter to ASCII.
unidecode_word(w) == IF w = "No_acute" THEN "No" ELSE w
unidecode(text) == [i \in 1..Len(text) |-> unidecode_word(text[i])]

\* transcription_is_empty, lines 79-82.
transcription_is_empty(abc) ==
    Contains(NO_SCORE, abc) \/ Contains(PLACEHOLDER, abc)

\* itertools.product(range(1, 8), repeat=4): number of combos and the i-th one.
NumDigits == DIGIT_STOP - DIGIT_START
NumCodes == Pow(NumDigits, REPEAT)
Code(i) ==
    [k \in 1..REPEAT |->
        (((i - 1) \div Pow(NumDigits, REPEAT - k)) % NumDigits) + DIGIT_START]

\* json.dumps of a list of records, and the reading back of a file's text.
EMPTY_TEXT == [valid |-> FALSE, array |-> <<>>]
json_dumps(list) == [valid |-> TRUE, array |-> list]
json_loads(text) == text.array

\* requests.Response.raise_for_status raises only for 4xx and 5xx.
raise_for_status(status) == status >= 400 /\ status < 600
\* Status codes a response may carry: 200, a non-200 status that is not an
\* error status, and an error status.
Statuses == {HTTP_OK, 203, 404}

---------------------------------------------------------------------------
(* The remote catalog *)

TextKinds == {"scored", "mixed", "blank"}
Plans == {"small", "large", "exact"}
Sites == [texts : TextKinds, plan : Plans]

GLOBAL_SCOPE == <<>>

\* Number of tunes the catalog holds for a scope (a theme code, or all tunes).
CatalogSize(s, scope) ==
    IF scope = GLOBAL_SCOPE
    THEN CASE s.plan = "small" -> 14
           [] s.plan = "large" -> 105
           [] OTHER -> 20
    ELSE LET r == (scope[REPEAT] - DIGIT_START) % 3 IN
         CASE s.plan = "small" -> (IF r = 0 THEN 14 ELSE IF r = 1 THEN 0 ELSE 4)
           [] s.plan = "large" -> (IF r = 0 THEN 105 ELSE IF r = 1 THEN 10 ELSE 4)
           [] OTHER -> (IF r = 0 THEN 4 ELSE IF r = 1 THEN 100 ELSE 0)

\* The <pre> blocks of the detail page of the idx-th tune.
PreBlocks(s, idx) ==
    CASE s.texts = "scored" -> << <<"abc">> >>
      [] s.texts = "blank" ->
            IF idx % 2 = 1 THEN <<>> ELSE << <<"REPLACE", "LINE", "abc">> >>
      [] OTHER ->
            IF idx <= 10
            THEN (IF idx % 2 = 0 THEN << <<"abc">> >>
                  ELSE << <<"abc", "abc">>, <<"No", "Score">> >>)
            ELSE IF idx <= 14
            THEN (IF idx = 12 THEN <<>> ELSE << <<"abc">> >>)
            ELSE CASE idx % 5 = 0 -> << <<"abc", "REPLACE", "LINE">> >>
                   [] idx % 5 = 1 -> << <<"abc", "No", "Score">> >>
                   [] idx % 5 = 2 -> << <<"No_acute", "Score">> >>
                   [] idx % 5 = 3 -> <<>>
                   [] OTHER -> << <<"abc">> >>

\* The result mapping's values for offset/limit: tunes offset+1 .. offset+limit.
QueryResults(s, scope, offset, limit) ==
    LET n == Min(limit, CatalogSize(s, scope) - offset)
        m == IF n < 0 THEN 0 ELSE n
    IN [i \in 1..m |-> [fulltext |-> offset + i,
                        fullurl |-> [scope |-> scope, idx |-> offset + i]]]

---------------------------------------------------------------------------
(* The program *)

Scope == IF driver = "global" THEN GLOBAL_SCOPE ELSE Code(codeIdx)
tune_file == IF driver = "global" THEN GLOBAL_FILE ELSE TUNE_FILE_FORMAT(Code(codeIdx))

isfile(f) == f \in DOMAIN files

Processing == pc \in {"request", "format", "open", "write", "check"}
Stopped == pc \in {"aborted", "crashed", "done"}

\* Slip: the page index itself is used as the offset.
PageOffsetIndex(p, num_tunes) == p

\* offset of the page request, lines 45 and 63.
PageOffset(p, num_tunes) == p * num_tunes

\* Slip: the inner loop of the by-code driver is not capped.
HasNextPageAlways(p) == TRUE

\* for page in range(10): is there a next iteration after `p`.
HasNextPage(p) ==
    IF driver = "global" THEN TRUE ELSE p + 1 < PAGES_PER_CODE

\* Slip: nothing is filtered out.
FilterPageKeepAll(page_of_tunes) == page_of_tunes

\* filtered_page, lines 97-98 and 119-120.
FilterPage(page_of_tunes) ==
    SelectSeq(page_of_tunes, LAMBDA tune : ~transcription_is_empty(tune.abc))

\* Slip: the stop test counts the filtered page instead of the raw page.
IsShortPageFiltered(page_of_tunes) ==
    Len(FilterPage(page_of_tunes)) < tunes_per_page

\* len(page_of_tunes) < tunes_per_page, lines 106 and 128.
IsShortPage(page_of_tunes) == Len(page_of_tunes) < tunes_per_page

\* Slip: the accumulator is replaced by the page instead of extended.
ExtendReplace(acc, filtered_page) == filtered_page

\* all_tunes.extend(filtered_page), lines 99 and 121.
Extend(acc, filtered_page) == acc \o filtered_page

\* Slip: the existence test is dropped and every code is processed.
SkipCodeNever(f) == FALSE

\* os.path.isfile(tune_file) -> continue, lines 91-92.
SkipCode(f) == isfile(f)

WriteText(f, text) ==
    [g \in (DOMAIN files) \cup {f} |-> IF g = f THEN text ELSE files[g]]

\* The process dies: its memory (locals, and the count of requests of the
\* process) is gone, the files stay.  A code that was being processed and
\* already has a file is recorded in `interrupted` with the file's text.
Die(how) ==
    /\ pc' = how
    /\ page' = 0
    /\ all_tunes' = <<>>
    /\ tunes_dict' = <<>>
    /\ entries' = <<>>
    /\ nreq' = 0
    /\ asked' = <<>>
    /\ got' = <<>>
    /\ interrupted' =
         IF driver = "by_code" /\ Processing /\ isfile(tune_file)
            /\ codeIdx \notin DOMAIN interrupted
         THEN [c \in (DOMAIN interrupted) \cup {codeIdx} |->
                 IF c = codeIdx THEN [content |-> files[tune_file], run |-> run]
                 ELSE interrupted[c]]
         ELSE interrupted
    /\ UNCHANGED <<driver, site, codeIdx, files, run, startFiles, flushed,
                   filterVars>>

\* Outer loop head of request_all_tunes_by_code, lines 88-94.
NextCode ==
    /\ driver = "by_code"
    /\ pc = "next_code"
    /\ codeIdx <= MaxCodes
    /\ IF codeIdx > NumCodes
       THEN /\ pc' = "done"
            /\ UNCHANGED <<codeIdx, all_tunes, page, asked, got>>
       ELSE IF SkipCode(tune_file)
       THEN /\ codeIdx' = codeIdx + 1
            /\ asked' = <<>>
            /\ got' = <<>>
            /\ UNCHANGED <<pc, all_tunes, page>>
       ELSE /\ pc' = "request"
            /\ all_tunes' = <<>>
            /\ page' = 0
            /\ asked' = <<>>
            /\ got' = <<>>
            /\ UNCHANGED codeIdx
    /\ UNCHANGED <<driver, site, tunes_dict, entries, files, run, nreq, sawNon200,
                   requested, startFiles, flushed, interrupted, filterVars>>

\* request_tunes_by_theme_code / request_tunes up to the result mapping,
\* lines 45-50 and 56-75.
RequestPage ==
    /\ pc = "request"
    /\ driver = "global" => page < MaxGlobalPages
    /\ \E status \in Statuses :
        /\ sawNon200' = (sawNon200 \/ status # HTTP_OK)
        /\ requested' = IF driver = "by_code" THEN requested \cup {codeIdx}
                        ELSE requested
        /\ IF status # HTTP_OK /\ raise_for_status(status)
           THEN Die("aborted")
           ELSE /\ tunes_dict' = QueryResults(site, Scope,
                                   PageOffset(page, tunes_per_page), tunes_per_page)
                /\ entries' = <<>>
                /\ pc' = "format"
                /\ nreq' = nreq + 1
                /\ asked' = Append(asked,
                              [page |-> page,
                               offset |-> PageOffset(page, tunes_per_page),
                               limit |-> tunes_per_page,
                               n |-> Len(tunes_dict')])
                /\ UNCHANGED <<driver, site, codeIdx, page, all_tunes, files, run,
                               got, startFiles, flushed, interrupted, filterVars>>

\* format_tune_entry with scrape_abc_notation, lines 16-38, for the next value.
FormatEntry ==
    /\ pc = "format"
    /\ Len(entries) < Len(tunes_dict)
    /\ \E status \in Statuses :
        /\ sawNon200' = (sawNon200 \/ status # HTTP_OK)
        /\ IF status # HTTP_OK /\ raise_for_status(status)
           THEN Die("aborted") /\ UNCHANGED requested
           ELSE LET tune == tunes_dict[Len(entries) + 1]
                    content == PreBlocks(site, tune.fullurl.idx)
                    abc_transcription ==
                        IF Len(content) > 0 THEN unidecode(content[1])
                        ELSE NO_SCORE
                IN /\ entries' = Append(entries,
                                    [name |-> tune.fulltext,
                                     url |-> tune.fullurl,
                                     abc |-> abc_transcription])
                   /\ nreq' = nreq + 1
                   /\ UNCHANGED <<driver, site, pc, codeIdx, page, all_tunes,
                                  tunes_dict, files, run, asked, got, requested,
                                  startFiles, flushed, interrupted, filterVars>>

\* The page is returned, filtered and accumulated, lines 96-99 and 118-121.
AccumulatePage ==
    /\ pc = "format"
    /\ Len(entries) = Len(tunes_dict)
    /\ all_tunes' = Extend(all_tunes, FilterPage(entries))
    /\ got' = Append(got, [page |-> page, raw |-> entries])
    /\ pc' = "open"
    /\ UNCHANGED <<driver, site, codeIdx, page, tunes_dict, entries, files, run,
                   nreq, sawNon200, asked, requested, startFiles, flushed,
                   interrupted, filterVars>>

\* open(tune_file, "w"): the file is created or truncated, lines 103 and 125.
OpenFile ==
    /\ pc = "open"
    /\ files' = WriteText(tune_file, EMPTY_TEXT)
    /\ pc' = "write"
    /\ UNCHANGED <<driver, site, codeIdx, page, all_tunes, tunes_dict, entries,
                   histVars, filterVars>>

\* outfile.writelines(json.dumps(all_tunes)) and the close, lines 104 and 126.
WriteFile ==
    /\ pc = "write"
    /\ files' = WriteText(tune_file, json_dumps(all_tunes))
    /\ flushed' = [file |-> tune_file, records |-> all_tunes]
    /\ pc' = "check"
    /\ UNCHANGED <<driver, site, codeIdx, page, all_tunes, tunes_dict, entries,
                   run, nreq, sawNon200, asked, got, requested, startFiles,
                   interrupted, filterVars>>

\* The short-page test and the loop step, lines 106-110 and 128-132.
CheckLastPage ==
    /\ pc = "check"
    /\ IF IsShortPage(entries) \/ ~HasNextPage(page)
       THEN /\ pc' = IF driver = "global" THEN "done" ELSE "next_code"
            /\ codeIdx' = IF driver = "global" THEN codeIdx ELSE codeIdx + 1
            /\ UNCHANGED page
       ELSE /\ page' = page + 1
            /\ pc' = "request"
            /\ UNCHANGED codeIdx
    /\ UNCHANGED <<driver, site, all_tunes, tunes_dict, entries, files, histVars,
                   filterVars>>

\* The process is killed, or hits an unhandled error outside an HTTP call
\* (such as a failing write), at any point of the run.
Crash ==
    /\ ~Stopped
    /\ Die("crashed")
    /\ UNCHANGED <<sawNon200, requested>>

\* The script is started again.
Restart ==
    /\ Stopped
    /\ run < MaxRuns
    /\ run' = run + 1
    /\ pc' = IF driver = "global" THEN "request" ELSE "next_code"
    /\ codeIdx' = 1
    /\ page' = 0
    /\ all_tunes' = <<>>
    /\ tunes_dict' = <<>>
    /\ entries' = <<>>
    /\ nreq' = 0
    /\ sawNon200' = FALSE
    /\ asked' = <<>>
    /\ got' = <<>>
    /\ requested' = {}
    /\ startFiles' = files
    /\ flushed' = [file |-> GLOBAL_FILE, records |-> <<>>]
    /\ UNCHANGED <<driver, site, files, interrupted, filterVars>>

NoFiles == [f \in {} |-> EMPTY_TEXT]

Init ==
    /\ driver \in {"by_code", "global"}
    /\ site \in Sites
    /\ pc = IF driver = "global" THEN "request" ELSE "next_code"
    /\ codeIdx = 1
    /\ page = 0
    /\ all_tunes = <<>>
    /\ tunes_dict = <<>>
    /\ entries = <<>>
    /\ files = NoFiles
    /\ run = 1
    /\ nreq = 0
    /\ sawNon200 = FALSE
    /\ asked = <<>>
    /\ got = <<>>
    /\ requested = {}
    /\ startFiles = NoFiles
    /\ flushed = [file |-> GLOBAL_FILE, records |-> <<>>]
    /\ interrupted = [c \in {} |-> 0]
    /\ abc_in = <<>>
    /\ verdict = "unset"

Next ==
    \/ NextCode
    \/ RequestPage
    \/ FormatEntry
    \/ AccumulatePage
    \/ OpenFile
    \/ WriteFile
    \/ CheckLastPage
    \/ Crash
    \/ Restart

Spec == Init /\ [][Next]_vars

---------------------------------------------------------------------------
(* The emptiness filter on its own: every text of at most MaxLen words *)

Words == {"No", "Score", "REPLACE", "LINE", "abc"}
Texts == UNION {[1..n -> Words] : n \in 0..MaxLen}

FilterInit ==
    /\ driver = "by_code"
    /\ site = [texts |-> "scored", plan |-> "small"]
    /\ pc = "next_code"
    /\ codeIdx = 1
    /\ page = 0
    /\ all_tunes = <<>>
    /\ tunes_dict = <<>>
    /\ entries = <<>>
    /\ files = NoFiles
    /\ run = 1
    /\ nreq = 0
    /\ sawNon200 = FALSE
    /\ asked = <<>>
    /\ got = <<>>
    /\ requested = {}
    /\ startFiles = NoFiles
    /\ flushed = [file |-> GLOBAL_FILE, records |-> <<>>]
    /\ interrupted = [c \in {} |-> 0]
    /\ abc_in \in Texts
    /\ verdict = "unset"

\* A call transcription_is_empty(abc_in).
Classify ==
    /\ verdict = "unset"
    /\ verdict' = IF transcription_is_empty(abc_in) THEN "empty" ELSE "nonempty"
    /\ UNCHANGED <<progVars, histVars, abc_in>>

FilterNext == Classify

FilterSpec == FilterInit /\ [][FilterNext]_vars

---------------------------------------------------------------------------
(* Properties *)

Records(f) == json_loads(files[f])
Range(seq) == {seq[i] : i \in 1..Len(seq)}
NonEmptyAbc(abc) == abc # NO_SCORE /\ ~Contains(PLACEHOLDER, abc)

RECURSIVE ConcatFiltered(_)
ConcatFiltered(pages) ==
    IF pages = <<>> THEN <<>>
    ELSE ConcatFiltered(SubSeq(pages, 1, Len(pages) - 1))
         \o SelectSeq(pages[Len(pages)].raw,
                      LAMBDA r : ~transcription_is_empty(r.abc))

\* The file of the code/run whose latest flush has completed.
FlushComplete ==
    /\ pc \in {"check", "request", "format", "done", "next_code"}
    /\ Len(got) >= 1
FlushedFile ==
    IF driver = "global" THEN GLOBAL_FILE
    ELSE IF pc = "next_code" THEN TUNE_FILE_FORMAT(Code(codeIdx - 1))
    ELSE tune_file

\* C1: no record of any output file has an empty transcription: none is the
\* sentinel "No Score", none contains the placeholder text, and the
\* emptiness filter is false of every one of them.
C1_NoEmptyPersisted ==
    \A f \in DOMAIN files : \A r \in Range(Records(f)) :
        /\ r.abc # NO_SCORE
        /\ ~Contains(PLACEHOLDER, r.abc)
        /\ ~transcription_is_empty(r.abc)

\* A non-empty file has been written right after a page that held a record
\* with an empty transcription.
C1_Witness ==
    /\ pc = "check"
    /\ Len(Records(tune_file)) > 0
    /\ \E r \in Range(entries) : transcription_is_empty(r.abc)

\* C2: once the flush of page p has completed, the file of the current
\* code/run is exactly the in-order concatenation of the filtered pages
\* 0..p of that code/run, holds records of that code/run only, and in the
\* scenario of a full page of 10 non-empty records followed by a page of 4
\* with one "No Score" the final tunes.json holds 13 records.
C2_FileIsConcatOfPages ==
    /\ FlushComplete =>
          /\ isfile(FlushedFile)
          /\ Records(FlushedFile) = ConcatFiltered(got)
          /\ \A i \in 1..Len(got) : got[i].page = i - 1
          /\ \A r \in Range(Records(FlushedFile)) :
                r.url.scope = FlushedFile.arg
    /\ ( /\ driver = "global"
         /\ pc = "done"
         /\ Len(got) = 2
         /\ Len(got[1].raw) = 10
         /\ \A r \in Range(got[1].raw) : NonEmptyAbc(r.abc)
         /\ Len(got[2].raw) = 4
         /\ Cardinality({i \in 1..4 : got[2].raw[i].abc = NO_SCORE}) = 1
         /\ Cardinality({i \in 1..4 : NonEmptyAbc(got[2].raw[i].abc)}) = 3 )
       => Len(Records(GLOBAL_FILE)) = 13

\* The global run has ended after a full page of 10 non-empty records and a
\* page of 4 records one of which is "No Score", and tunes.json holds 13.
C2_Witness ==
    /\ driver = "global"
    /\ pc = "done"
    /\ Len(got) = 2
    /\ Len(got[1].raw) = 10
    /\ \A r \in Range(got[1].raw) : NonEmptyAbc(r.abc)
    /\ Len(got[2].raw) = 4
    /\ Cardinality({i \in 1..4 : got[2].raw[i].abc = NO_SCORE}) = 1
    /\ Len(Records(GLOBAL_FILE)) = 13

\* C3: the page requests of a code/run are pages 0, 1, 2, ... in order, each
\* once; a further page is requested only after pages that were all full in
\* raw records; the global driver has ended only after a page with fewer than
\* tunes_per_page raw records, so with k full pages and a short page k it has
\* issued exactly k+1 requests; the by-code driver leaves a code only after a
\* short page or after its 10th page.
C3_PaginationStops ==
    /\ \A i \in 1..Len(asked) : asked[i].page = i - 1
    /\ \A i \in 1..(Len(asked) - 1) : asked[i].n = tunes_per_page
    /\ pc = "request" =>
          /\ Len(asked) = page
          /\ \A i \in 1..Len(asked) : asked[i].n = tunes_per_page
    /\ (driver = "global" /\ pc = "done") =>
          /\ Len(asked) >= 1
          /\ asked[Len(asked)].n < tunes_per_page
    /\ (driver = "by_code" /\ pc = "next_code" /\ asked # <<>>) =>
          \/ asked[Len(asked)].n < tunes_per_page
          \/ Len(asked) = PAGES_PER_CODE

\* The global driver has ended after k = 2 full pages and a short page,
\* having issued 3 page requests, the records of the first full page having
\* all been filtered out.
C3_Witness ==
    /\ driver = "global"
    /\ pc = "done"
    /\ Len(asked) = 3
    /\ Len(got) = 3
    /\ Len(got[1].raw) = tunes_per_page
    /\ \A r \in Range(got[1].raw) : transcription_is_empty(r.abc)

\* C4: the by-code driver issues at most 10 page requests per theme code,
\* never requests a page after the 10th, and no per-code file holds more
\* than 100 records.
C4_PageCap ==
    driver = "by_code" =>
        /\ Len(asked) <= PAGES_PER_CODE
        /\ pc = "request" => page < PAGES_PER_CODE
        /\ \A f \in DOMAIN files :
              Len(Records(f)) <= PAGES_PER_CODE * tunes_per_page

\* The by-code driver has moved on to the next code after 10 full pages,
\* leaving a file of 100 records.
C4_Witness ==
    /\ driver = "by_code"
    /\ pc = "next_code"
    /\ Len(asked) = PAGES_PER_CODE
    /\ asked[PAGES_PER_CODE].n = tunes_per_page
    /\ Len(Records(FlushedFile)) = PAGES_PER_CODE * tunes_per_page

\* Code positions the by-code driver has reached in this run.
Reached == IF pc = "next_code" THEN 1..(codeIdx - 1) ELSE 1..codeIdx

\* C5: in a by-code run no request is issued for a code whose file existed
\* when the run started, every such file keeps its content, and as long as
\* every code reached had a file the run has issued no request and changed
\* no file.
C5_SkipExisting ==
    driver = "by_code" =>
        /\ \A f \in DOMAIN startFiles :
              /\ isfile(f)
              /\ files[f] = startFiles[f]
              /\ \A c \in requested : TUNE_FILE_FORMAT(Code(c)) # f
        /\ (~Stopped /\ \A c \in Reached :
                          TUNE_FILE_FORMAT(Code(c)) \in DOMAIN startFiles) =>
              /\ nreq = 0
              /\ requested = {}
              /\ files = startFiles

\* A restarted run has passed every code of the model, each of which had a
\* file, without a request.
C5_Witness ==
    /\ driver = "by_code"
    /\ run > 1
    /\ pc = "next_code"
    /\ codeIdx = MaxCodes + 1
    /\ \A c \in 1..MaxCodes : TUNE_FILE_FORMAT(Code(c)) \in DOMAIN startFiles
    /\ nreq = 0

\* C6: once a response with a status other than 200 has been received, the
\* run issues no further request and changes no file.
C6_AbortOnNon200 ==
    [][sawNon200 => (nreq' <= nreq /\ files' = files)]_vars

\* C7: the emptiness filter answers "empty" exactly for a text that equals
\* "No Score" or contains the placeholder line.
C7_FilterIffSentinelOrPlaceholder ==
    verdict # "unset" =>
        ((verdict = "empty") <=>
            (abc_in = NO_SCORE \/ Contains(PLACEHOLDER, abc_in)))

\* C8: no output file holds two records with the same url, and the page
\* requests of a code/run use offset = page index * page size and
\* limit = page size.
C8_NoDuplicateRecords ==
    /\ \A f \in DOMAIN files :
          Cardinality({r.url : r \in Range(Records(f))}) = Len(Records(f))
    /\ \A i \in 1..Len(asked) :
          /\ asked[i].offset = (i - 1) * tunes_per_page
          /\ asked[i].limit = tunes_per_page

\* A file holds the records of two pages.
C8_Witness ==
    /\ pc = "check"
    /\ page = 1
    /\ Len(Records(tune_file)) > tunes_per_page

\* C9: when the process has stopped, the file holds every record of the
\* last completed page flush.
C9_StopKeepsFlushed ==
    (pc \in {"crashed", "aborted"} /\ flushed.records # <<>>) =>
        /\ isfile(flushed.file)
        /\ Range(flushed.records) \subseteq Range(Records(flushed.file))

====
